---- MODULE Spec2Model ----
(***************************************************************************)
(* Model of the Unitrad search/poll/merge session of src/api.py (class     *)
(* Api) as a state machine.  One step of the model is one run of a         *)
(* coroutine between two suspension points (await) of the asyncio loop:    *)
(* nothing else can interleave inside such a run, and kill() or the        *)
(* server's answer can come between any two of them.                       *)
(*                                                                         *)
(* Python values are modelled with uniform shapes so that any two of them  *)
(* can be compared:                                                        *)
(*   - a field value is [t, s, l, m]: t is "s" (scalar s), "l" (list l),   *)
(*     "m" (dict m) or "absent" (the key is not in the dict);              *)
(*   - a dict value m maps each key of MapKeys to an integer, 0 standing   *)
(*     for "key not in the dict";                                          *)
(*   - a book is a function from BookKeys to field values;                 *)
(*   - a patch record is [idx, fields]: _idx and the other items of the    *)
(*     dict in their iteration (insertion) order.                          *)
(*                                                                         *)
(* The server is free in what it answers: a failure, a null body, or a     *)
(* JSON object with uuid, version and running that is either a full result *)
(* (books, as UnitradResult declares, with books_diff absent, null or {})  *)
(* or an incremental one (books_diff = {insert, update}, with or without   *)
(* books), its _idx and value kinds not necessarily fitting the snapshot.  *)
(* A request is sent when _request is called.  The caller's callback       *)
(* returns normally.                                                       *)
(*                                                                         *)
(* The tool nlib_search_books of src/server.py is a second state machine   *)
(* over its own variables (ToolSpec): one call, from its search request to *)
(* its return, a step being the run between two awaits of client.get.      *)
(***************************************************************************)
EXTENDS Integers, Sequences, FiniteSets, TLC

VARIABLES
    killed,     \* self.killed
    data,       \* self.data (data.set = FALSE: None)
    pc,         \* the session's one continuation and where it is suspended
    delay,      \* milliseconds of the asyncio.sleep the continuation is in (0: none)
    query,      \* the query Api was constructed with
    req,        \* the request last handed to _request
    resp,       \* the server's last answer, as seen by the continuation
    calls,      \* number of invocations of self.callback so far
    cbArg,      \* the argument of the last invocation of self.callback
    answers,    \* number of answers (responses and failures) the server has given
    fails,      \* number of consecutive failures of the initial search so far
    live,       \* number of the session's coroutines and tasks that have not ended
    tpc,        \* where one call of nlib_search_books (src/server.py) is suspended
    tdata,      \* its local "data": the body of the latest response with status 200
    tuuid,      \* its local "uuid"
    treq,       \* the request it last sent with client.get
    tstatus,    \* the status code of the latest response (0: none yet)
    tresult,    \* what the call returned: [returned, books]
    terrors,    \* number of ctx.error calls
    tpolls      \* number of polling requests sent

\* the session of src/api.py
svars == <<killed, data, pc, delay, query, req, resp, calls, cbArg, answers, fails,
           live>>
\* one call of the tool of src/server.py
tvars == <<tpc, tdata, tuuid, treq, tstatus, tresult, terrors, tpolls>>
vars == <<svars, tvars>>

----------------------------------------------------------------------------
(* Bounds of the model *)

\* answers (responses, empty bodies, failures) the server gives in one behaviour
MaxAnswers == 2
\* consecutive failures of the initial search in one behaviour
MaxFails == 3

\* polling requests one call of nlib_search_books sends in one behaviour
MaxPolls == 2

(* Program constants *)

WarmupDelay == 20
PollDelay == 500
RetryDelay == 1000
PollDiff == 1
PollTimeout == 10

----------------------------------------------------------------------------
(* Queries *)

FIELDS == <<"free", "title", "author", "publisher", "isbn", "ndc",
            "year_start", "year_end", "region">>

FieldSet == {FIELDS[i] : i \in 1..Len(FIELDS)}

\* "<absent>": the key is not in the dict; "<None>": the key is there with value None
Absent == "<absent>"
None == "<None>"

Query(title, author, region) ==
    [k \in FieldSet |->
        IF k = "title" THEN title
        ELSE IF k = "author" THEN author
        ELSE IF k = "region" THEN region
        ELSE Absent]

Queries ==
    { Query("", "x", "gifu"), Query("t", None, "") }

strip_query(q) ==
    [k \in FieldSet |-> IF q[k] # Absent /\ q[k] # "" THEN q[k] ELSE Absent]

\* lines 50-65: the parameters that get into the query string, in the order of
\* the dict; the values of Queries are unreserved characters, which
\* urllib.parse.quote leaves as they are
object_to_query_string(params) ==
    LET kept == SelectSeq(FIELDS, LAMBDA k : params[k] \notin {Absent, None, ""})
    IN  [i \in 1..Len(kept) |-> [key |-> kept[i], value |-> params[kept[i]]]]

----------------------------------------------------------------------------
(* Python values: field values, books, patch records *)

MapKeys == {"x", "y"}
BookKeys == {"id", "a", "list", "url"}

EmptyMap == [k \in MapKeys |-> 0]
Map(x, y) == [k \in MapKeys |-> IF k = "x" THEN x ELSE y]

NoVal == [t |-> "absent", s |-> 0, l |-> <<>>, m |-> EmptyMap]
Scalar(n) == [t |-> "s", s |-> n, l |-> <<>>, m |-> EmptyMap]
List(l) == [t |-> "l", s |-> 0, l |-> l, m |-> EmptyMap]
Dict(m) == [t |-> "m", s |-> 0, l |-> <<>>, m |-> m]

Book(id, a, list, url) ==
    [k \in BookKeys |->
        IF k = "id" THEN Scalar(id)
        ELSE IF k = "a" THEN a ELSE IF k = "list" THEN list ELSE url]

Item(k, v) == [k |-> k, v |-> v]
Patch(idx, fields) == [idx |-> idx, fields |-> fields]

\* books[idx] of a Python list of length n: the 1-based position, 0 for IndexError
py_index(n, idx) ==
    IF idx >= 0 /\ idx < n THEN idx + 1
    ELSE IF idx < 0 /\ -idx <= n THEN n + idx + 1
    ELSE 0

----------------------------------------------------------------------------
(* Snapshots (self.data) and responses (the parsed JSON body) *)

NoData ==
    [set |-> FALSE, uuid |-> "", version |-> 0, running |-> FALSE, books |-> <<>>]

Snapshot(uuid, version, running, books) ==
    [set |-> TRUE, uuid |-> uuid, version |-> version, running |-> running,
     books |-> books]

\* diff: what data['books_diff'] is: "absent" (no such key), "null" (None),
\* "empty" ({}: present, not None, falsy) or "diff" ({insert, update}).
\* hasBooks: whether the response has a top-level 'books' key.
\* kind: "json" (a JSON object), "null" (the body is null: _request returns
\* None), "error" (_request raises), "none" (no answer yet).
Response(uuid, version, running, hasBooks, books, diff, insert, update) ==
    [kind |-> "json", uuid |-> uuid, version |-> version, running |-> running,
     hasBooks |-> hasBooks, books |-> books,
     diff |-> diff, insert |-> insert, update |-> update]

Answer(kind) ==
    [Response("", 0, FALSE, FALSE, <<>>, "absent", <<>>, <<>>) EXCEPT !.kind = kind]

NoResponse == Answer("none")

----------------------------------------------------------------------------
(* receive: the merge of a response into self.data *)

Raise(books) == [books |-> books, raised |-> TRUE]
Done(books) == [books |-> books, raised |-> FALSE]

extend_overwrite(old, value) == value

extend(old, value) == old \o value

dict_update(old, value) ==
    [k \in MapKeys |-> IF value[k] # 0 THEN value[k] ELSE old[k]]

\* lines 183-190: one item (key, value) of a patch record d with d['_idx'] = idx
update_item(books, idx, key, value) ==
    LET p == py_index(Len(books), idx)
        tgt == IF p > 0 THEN books[p][key] ELSE NoVal
        put(v) == Done([books EXCEPT ![p][key] = v])
    IN  IF value.t = "l" THEN
            \* books[idx][key].extend(value)
            IF p = 0 \/ tgt.t # "l" THEN Raise(books)
            ELSE put(List(extend(tgt.l, value.l)))
        ELSE IF value.t = "m" THEN
            \* for k, v in value.items(): books[idx][key][k] = v
            IF value.m = EmptyMap THEN Done(books)
            ELSE IF p = 0 \/ tgt.t # "m" THEN Raise(books)
            ELSE put(Dict(dict_update(tgt.m, value.m)))
        ELSE
            \* books[idx][key] = value
            IF p = 0 THEN Raise(books) ELSE put(value)

\* lines 181-190: the items of one patch record, in order, up to the first exception
RECURSIVE update_record(_, _, _)
update_record(books, idx, fields) ==
    IF fields = <<>> THEN Done(books)
    ELSE LET r == update_item(books, idx, Head(fields).k, Head(fields).v)
         IN  IF r.raised THEN r ELSE update_record(r.books, idx, Tail(fields))

\* lines 180-190: the patch records of books_diff.update, in order
RECURSIVE update_all(_, _)
update_all(books, update) ==
    IF update = <<>> THEN Done(books)
    ELSE LET r == update_record(books, Head(update).idx, Head(update).fields)
         IN  IF r.raised THEN r ELSE update_all(r.books, Tail(update))

insert_front(books, insert) == insert \o books

\* line 172: self.data['books'].extend(data['books_diff']['insert'])
insert_all(books, insert) == books \o insert

top_keep(d, r) == d

\* lines 175-177: every key of the response but books_diff overwrites self.data's
top_level(d, r) ==
    [d EXCEPT !.uuid = r.uuid, !.version = r.version, !.running = r.running,
              !.books = IF r.hasBooks THEN r.books ELSE @]

is_diff_present(r) == r.diff # "absent"

\* line 170: 'books_diff' in data and data['books_diff']
is_diff(r) == r.diff = "diff"

merge_atomic(d, r) ==
    IF is_diff(r) THEN
        IF ~d.set THEN [data |-> d, raised |-> TRUE]
        ELSE LET d1 == [d EXCEPT !.books = insert_all(d.books, r.insert)]
                 d2 == top_level(d1, r)
                 u == update_all(d2.books, r.update)
             IN  IF u.raised THEN [data |-> d, raised |-> TRUE]
                 ELSE [data |-> [d2 EXCEPT !.books = u.books], raised |-> FALSE]
    ELSE
        [data |-> Snapshot(r.uuid, r.version, r.running, r.books), raised |-> FALSE]

\* lines 170-193; raised: an exception left the merge, data: self.data as it left it
merge(d, r) ==
    IF is_diff(r) THEN
        IF ~d.set THEN [data |-> d, raised |-> TRUE]
        ELSE LET d1 == [d EXCEPT !.books = insert_all(d.books, r.insert)]
                 d2 == top_level(d1, r)
                 u == update_all(d2.books, r.update)
             IN  [data |-> [d2 EXCEPT !.books = u.books], raised |-> u.raised]
    ELSE
        [data |-> Snapshot(r.uuid, r.version, r.running, r.books), raised |-> FALSE]

----------------------------------------------------------------------------
(* receive: lines 159-208 up to its first suspension point *)

delay_fixed(r, d) == PollDelay

\* lines 201-206: the delay before the next poll
next_delay(r, d) ==
    IF r.version = 1 /\ Len(d.books) = 0 THEN WarmupDelay ELSE PollDelay

continues_always(r) == TRUE

\* line 199: data['running'] is True
continues(r) == r.running = TRUE

callback_response(d, r) == Snapshot(r.uuid, r.version, r.running, r.books)

\* line 196: the value handed to self.callback
callback_arg(d, r) == d

Outcome(d, called, arg, next, ms) ==
    [data |-> d, called |-> called, arg |-> arg, next |-> next, delay |-> ms]

\* receive with self.killed false. next: "sleep" (asyncio.sleep, then a polling
\* task), "return" (nothing scheduled) or "raise" (an exception leaves receive)
receive_live(d, r) ==
    LET m == merge(d, r)
    IN  IF m.raised THEN Outcome(m.data, FALSE, NoData, "raise", 0)
        ELSE IF continues(r)
             THEN Outcome(m.data, TRUE, callback_arg(m.data, r), "sleep",
                          next_delay(r, m.data))
             ELSE Outcome(m.data, TRUE, callback_arg(m.data, r), "return", 0)

receive_unguarded(k, d, r) == receive_live(d, r)

\* lines 167-168: a killed session discards the response
receive(k, d, r) ==
    IF k THEN Outcome(d, FALSE, NoData, "return", 0) ELSE receive_live(d, r)

----------------------------------------------------------------------------
(* The server's answers *)

Uuids == {"u1", "u2"}

\* line 201 tells version 1 from every other version
Versions == {1, 2}

\* {id: 1, a: 1, list: [1], url: {x: 1}}
B1 == Book(1, Scalar(1), List(<<1>>), Dict(Map(1, 0)))
\* {id: 2, a: 2}
B2 == Book(2, Scalar(2), NoVal, NoVal)

\* {_idx: 0, list: [2], a: 5}
P_ex == Patch(0, <<Item("list", List(<<2>>)), Item("a", Scalar(5))>>)
\* {_idx: 0, url: {x: 2, y: 3}}
P_map == Patch(0, <<Item("url", Dict(Map(2, 3)))>>)
\* {_idx: 1, a: 5}
P_second == Patch(1, <<Item("a", Scalar(5))>>)
\* {_idx: -1, list: [3]}
P_last == Patch(-1, <<Item("list", List(<<3>>))>>)
\* {_idx: 0, a: 7, list: {x: 1}}
P_bad == Patch(0, <<Item("a", Scalar(7)), Item("list", Dict(Map(1, 0)))>>)

Inserts == { <<>>, <<B2>> }
Updates == { <<>>, <<P_ex>>, <<P_ex, P_map>>, <<P_second>>, <<P_last>>, <<P_bad>>,
             <<P_ex, P_second>> }

\* a full result: books, and no books_diff that counts
FullResponses ==
    { Response(u, v, run, TRUE, b, k, <<>>, <<>>) :
        u \in Uuids, v \in Versions, run \in BOOLEAN,
        b \in { <<>>, <<B1>> }, k \in {"absent", "null", "empty"} }

\* an incremental result: books_diff, with or without a top-level books
DiffResponses ==
    { Response(u, v, run, hb, IF hb THEN <<B1>> ELSE <<>>, "diff", ins, upd) :
        u \in Uuids, v \in Versions, run \in BOOLEAN, hb \in BOOLEAN,
        ins \in Inserts, upd \in Updates }

Responses == FullResponses \cup DiffResponses

----------------------------------------------------------------------------
(* Requests *)

NoQuery == [k \in FieldSet |-> Absent]

NoRequest ==
    [cmd |-> "none", query |-> NoQuery, uuid |-> "", version |-> 0,
     diff |-> 0, timeout |-> 0]

\* line 127: _request('search', strip_query(query))
search_request(q) ==
    [cmd |-> "search", query |-> strip_query(q), uuid |-> "", version |-> 0,
     diff |-> 0, timeout |-> 0]

polling_request_delivered(d) ==
    [cmd |-> "polling", query |-> NoQuery, uuid |-> cbArg.uuid,
     version |-> cbArg.version, diff |-> PollDiff, timeout |-> PollTimeout]

\* lines 142-147: _request('polling', {uuid, version, diff: 1, timeout: 10})
polling_request(d) ==
    [cmd |-> "polling", query |-> NoQuery, uuid |-> d.uuid, version |-> d.version,
     diff |-> PollDiff, timeout |-> PollTimeout]

----------------------------------------------------------------------------
(* nlib_search_books (src/server.py): values *)

\* the library the tool searches for: its name in "remains" (line 51) and its
\* id in a book's "holdings" (line 63)
TargetName == "Nakatsugawa"
TargetId == 100914
StatusOK == 200
ToolTimeout == "3"

Statuses == {StatusOK, 404, 500}
LibraryNames == {TargetName, "Gifu"}
LibraryIds == {TargetId, 100913}

\* str(n) of line 52
py_str(n) == CASE n = 1 -> "1" [] n = 2 -> "2" [] OTHER -> "?"

\* a book of a response: hasHoldings = FALSE when the key 'holdings' is missing
ToolBook(id, hasHoldings, holdings, isbn) ==
    [id |-> id, hasHoldings |-> hasHoldings, holdings |-> holdings, isbn |-> isbn]

T1 == ToolBook("b1", TRUE, {TargetId}, "978")
T2 == ToolBook("b2", TRUE, LibraryIds \ {TargetId}, "979")
T3 == ToolBook("b3", FALSE, {}, None)
T4 == ToolBook("b4", TRUE, LibraryIds, None)

ToolBooks == { <<>>, <<T1>>, <<T2, T4, T3>> }

\* the body of a response with status 200
NoJson == [set |-> FALSE, uuid |-> "", version |-> 0, remains |-> {}, books |-> <<>>]

Json(uuid, version, remains, books) ==
    [set |-> TRUE, uuid |-> uuid, version |-> version, remains |-> remains,
     books |-> books]

Jsons == { Json(u, v, rm, bs) : u \in Uuids, v \in Versions,
                               rm \in SUBSET LibraryNames, bs \in ToolBooks }

\* lines 64-72, the fields of BookSummary the model keeps
BookSummary(book) ==
    [id |-> book.id, isbn |-> IF book.isbn = None \/ book.isbn = "" THEN "" ELSE book.isbn]

\* line 63
is_held(book) == book.hasHoldings /\ TargetId \in book.holdings

\* lines 61-74
summaries(books) ==
    LET held == SelectSeq(books, is_held)
    IN  [i \in 1..Len(held) |-> BookSummary(held[i])]

NoResult == [returned |-> FALSE, books |-> <<>>]
Returned(books) == [returned |-> TRUE, books |-> books]

\* the parameters of client.get
NoToolRequest == [cmd |-> "none", region |-> "", uuid |-> "", version |-> "", timeout |-> ""]

\* lines 33-42 (the search terms are passed through unchanged)
tool_search_request ==
    [cmd |-> "search", region |-> "gifu", uuid |-> "", version |-> "", timeout |-> ""]

tool_polling_request_latest(uuid, d) ==
    [cmd |-> "polling", region |-> "", uuid |-> d.uuid, version |-> py_str(d.version),
     timeout |-> ToolTimeout]

\* line 52
tool_polling_request(uuid, d) ==
    [cmd |-> "polling", region |-> "", uuid |-> uuid, version |-> py_str(d.version),
     timeout |-> ToolTimeout]

TInit ==
    /\ tpc = "start"
    /\ tdata = NoJson
    /\ tuuid = ""
    /\ treq = NoToolRequest
    /\ tstatus = 0
    /\ tresult = NoResult
    /\ terrors = 0
    /\ tpolls = 0

----------------------------------------------------------------------------
(* The session *)

\* lines 97-108: __init__; the search task is created and has not run yet
Init ==
    /\ killed = FALSE
    /\ data = NoData
    /\ pc = "search_task"
    /\ delay = 0
    /\ query \in Queries
    /\ req = NoRequest
    /\ resp = NoResponse
    /\ calls = 0
    /\ cbArg = NoData
    /\ answers = 0
    /\ fails = 0
    /\ live = 1
    /\ TInit

\* lines 110-112
kill ==
    /\ killed' = TRUE
    /\ UNCHANGED <<data, pc, delay, query, req, resp, calls, cbArg, answers, fails>>
    /\ live' = live
    /\ UNCHANGED tvars

\* lines 121-127: the search task runs up to the await of _request
search ==
    /\ pc = "search_task"
    /\ IF killed
       THEN pc' = "idle" /\ req' = req
       ELSE pc' = "search_req" /\ req' = search_request(query)
    /\ UNCHANGED <<killed, data, delay, query, resp, calls, cbArg, answers, fails>>
    /\ live' = IF killed THEN live - 1 ELSE live
    /\ UNCHANGED tvars

Resume_propagates(out, retry) ==
    /\ data' = out.data
    /\ calls' = IF out.called THEN calls + 1 ELSE calls
    /\ cbArg' = IF out.called THEN out.arg ELSE cbArg
    /\ pc' = IF out.next = "sleep" THEN "poll_sleep" ELSE "idle"
    /\ delay' = IF out.next = "sleep" THEN out.delay ELSE 0
    /\ live' = IF out.next = "sleep" THEN live ELSE live - 1

\* what a continuation does with receive's outcome; retry: where an exception leads
Resume(out, retry) ==
    /\ data' = out.data
    /\ calls' = IF out.called THEN calls + 1 ELSE calls
    /\ cbArg' = IF out.called THEN out.arg ELSE cbArg
    /\ pc' = IF out.next = "sleep" THEN "poll_sleep"
             ELSE IF out.next = "raise" THEN retry ELSE "idle"
    /\ delay' = IF out.next = "sleep" THEN out.delay
                ELSE IF out.next = "raise" THEN RetryDelay ELSE 0
    /\ live' = IF out.next = "return" THEN live - 1 ELSE live

\* lines 127-128 (and 129-132 when receive raises): the search request is answered
search_response ==
    /\ pc = "search_req"
    /\ answers < MaxAnswers
    /\ \E r \in Responses :
        /\ resp' = r
        /\ Resume(receive(killed, data, r), "search_retry")
    /\ answers' = answers + 1
    /\ fails' = 0
    /\ UNCHANGED <<killed, query, req>>
    /\ UNCHANGED tvars

\* line 128 with a null body: receive(None) returns when killed and raises at
\* line 170 otherwise (lines 129-132)
search_null ==
    /\ pc = "search_req"
    /\ answers < MaxAnswers
    /\ resp' = Answer("null")
    /\ pc' = IF killed THEN "idle" ELSE "search_retry"
    /\ delay' = IF killed THEN 0 ELSE RetryDelay
    /\ answers' = answers + 1
    /\ fails' = 0
    /\ UNCHANGED <<killed, data, query, req, calls, cbArg>>
    /\ live' = IF killed THEN live - 1 ELSE live
    /\ UNCHANGED tvars

search_gives_up ==
    /\ pc = "search_req"
    /\ fails < MaxFails
    /\ resp' = Answer("error")
    /\ pc' = IF fails >= 2 THEN "idle" ELSE "search_retry"
    /\ delay' = IF fails >= 2 THEN 0 ELSE RetryDelay
    /\ fails' = fails + 1
    /\ UNCHANGED <<killed, data, query, req, calls, cbArg, answers>>
    /\ live' = IF fails >= 2 THEN live - 1 ELSE live
    /\ UNCHANGED tvars

\* lines 129-132: _request raises (transport or status error); sleep(1) starts
search_error ==
    /\ pc = "search_req"
    /\ fails < MaxFails
    /\ resp' = Answer("error")
    /\ pc' = "search_retry"
    /\ delay' = RetryDelay
    /\ fails' = fails + 1
    /\ UNCHANGED <<killed, data, query, req, calls, cbArg, answers>>
    /\ live' = live
    /\ UNCHANGED tvars

\* lines 132-133: the sleep ends and the search task is created again
search_retry ==
    /\ pc = "search_retry"
    /\ pc' = "search_task"
    /\ delay' = 0
    /\ UNCHANGED <<killed, data, query, req, resp, calls, cbArg, answers, fails>>
    /\ live' = live + 1 - 1
    /\ UNCHANGED tvars

\* lines 202-206: the sleep after a delivery ends and the polling task is created
receive_sleep ==
    /\ pc = "poll_sleep"
    /\ pc' = "poll_task"
    /\ delay' = 0
    /\ UNCHANGED <<killed, data, query, req, resp, calls, cbArg, answers, fails>>
    /\ live' = live + 1 - 1
    /\ UNCHANGED tvars

polling_unguarded ==
    /\ pc = "poll_task"
    /\ pc' = "poll_req"
    /\ req' = polling_request(data)
    /\ UNCHANGED <<killed, data, delay, query, resp, calls, cbArg, answers, fails>>
    /\ live' = live
    /\ UNCHANGED tvars

\* lines 137-147: the polling task runs up to the await of _request
polling ==
    /\ pc = "poll_task"
    /\ IF killed
       THEN pc' = "idle" /\ req' = req
       ELSE pc' = "poll_req" /\ req' = polling_request(data)
    /\ UNCHANGED <<killed, data, delay, query, resp, calls, cbArg, answers, fails>>
    /\ live' = IF killed THEN live - 1 ELSE live
    /\ UNCHANGED tvars

\* lines 152-153 (and 154-156 when receive raises): a polling request is answered
polling_response ==
    /\ pc = "poll_req"
    /\ answers < MaxAnswers
    /\ \E r \in Responses :
        /\ resp' = r
        /\ Resume(receive(killed, data, r), "poll_retry")
    /\ answers' = answers + 1
    /\ UNCHANGED <<killed, query, req, fails>>
    /\ UNCHANGED tvars

polling_empty_no_else ==
    /\ pc = "poll_req"
    /\ answers < MaxAnswers
    /\ resp' = Answer("null")
    /\ pc' = "poll_retry"
    /\ delay' = RetryDelay
    /\ answers' = answers + 1
    /\ UNCHANGED <<killed, data, query, req, calls, cbArg, fails>>
    /\ live' = live + 1
    /\ UNCHANGED tvars

polling_empty_now ==
    /\ pc = "poll_req"
    /\ answers < MaxAnswers
    /\ resp' = Answer("null")
    /\ pc' = "poll_task"
    /\ delay' = 0
    /\ answers' = answers + 1
    /\ UNCHANGED <<killed, data, query, req, calls, cbArg, fails>>
    /\ live' = live
    /\ UNCHANGED tvars

\* lines 149-150: the body is null; sleep(1) starts
polling_empty ==
    /\ pc = "poll_req"
    /\ answers < MaxAnswers
    /\ resp' = Answer("null")
    /\ pc' = "poll_retry"
    /\ delay' = RetryDelay
    /\ answers' = answers + 1
    /\ UNCHANGED <<killed, data, query, req, calls, cbArg, fails>>
    /\ live' = live
    /\ UNCHANGED tvars

polling_error_stops ==
    /\ pc = "poll_req"
    /\ answers < MaxAnswers
    /\ resp' = Answer("error")
    /\ pc' = "idle"
    /\ delay' = 0
    /\ answers' = answers + 1
    /\ UNCHANGED <<killed, data, query, req, calls, cbArg, fails>>
    /\ live' = live - 1
    /\ UNCHANGED tvars

\* lines 154-156: _request raises; sleep(1) starts
polling_error ==
    /\ pc = "poll_req"
    /\ answers < MaxAnswers
    /\ resp' = Answer("error")
    /\ pc' = "poll_retry"
    /\ delay' = RetryDelay
    /\ answers' = answers + 1
    /\ UNCHANGED <<killed, data, query, req, calls, cbArg, fails>>
    /\ live' = live
    /\ UNCHANGED tvars

polling_to_search ==
    /\ pc = "poll_retry"
    /\ pc' = "search_task"
    /\ delay' = 0
    /\ UNCHANGED <<killed, data, query, req, resp, calls, cbArg, answers, fails>>
    /\ live' = live + 1 - 1
    /\ UNCHANGED tvars

\* lines 150-151, 156-157: the sleep ends and the polling task is created again
polling_retry ==
    /\ pc = "poll_retry"
    /\ pc' = "poll_task"
    /\ delay' = 0
    /\ UNCHANGED <<killed, data, query, req, resp, calls, cbArg, answers, fails>>
    /\ live' = live + 1 - 1
    /\ UNCHANGED tvars

Next ==
    \/ kill
    \/ search
    \/ search_response
    \/ search_null
    \/ search_error
    \/ search_retry
    \/ receive_sleep
    \/ polling
    \/ polling_response
    \/ polling_empty
    \/ polling_error
    \/ polling_retry

Spec == Init /\ [][Next]_vars

----------------------------------------------------------------------------
(* The session under a server that ends the search *)

\* the search of one query under one uuid
LiveQuery == Query("t", None, "")
LiveResponses == { r \in Responses : r.uuid = "u1" }
\* the full results with running = false: they merge into any snapshot
FinalResponses == { r \in FullResponses : r.uuid = "u1" /\ ~r.running }

LiveInit == Init /\ query = LiveQuery

\* lines 127-128 and 152-153 when the request is answered by a full result with
\* running = false; such an answer is possible whatever the server has answered
\* before
final_response ==
    /\ pc \in {"search_req", "poll_req"}
    /\ \E r \in FinalResponses :
        /\ resp' = r
        /\ Resume(receive(killed, data, r),
                  IF pc = "search_req" THEN "search_retry" ELSE "poll_retry")
    /\ fails' = 0
    /\ UNCHANGED <<killed, query, req, answers>>
    /\ UNCHANGED tvars

\* a step of the session that waits for nothing but the event loop
SessionStep ==
    \/ search
    \/ search_retry
    \/ receive_sleep
    \/ polling
    \/ polling_retry

\* the session is never cancelled
LiveNext ==
    \/ search
    \/ search_response /\ resp' \in LiveResponses
    \/ search_null
    \/ search_error
    \/ search_retry
    \/ receive_sleep
    \/ polling
    \/ polling_response /\ resp' \in LiveResponses
    \/ polling_empty
    \/ polling_error
    \/ polling_retry
    \/ final_response

\* The event loop runs every task that is ready and every sleep that is over
\* (weak fairness of the session's own steps).  The server answers every request
\* and, its other answers being at most MaxAnswers and MaxFails, in the end with
\* a final response (weak fairness of final_response).
LiveSpec ==
    /\ LiveInit
    /\ [][LiveNext]_vars
    /\ WF_vars(SessionStep)
    /\ WF_vars(final_response)

----------------------------------------------------------------------------
(* nlib_search_books (src/server.py): one call *)

\* lines 32-42: the call sends the search request
tool_search ==
    /\ tpc = "start"
    /\ tpc' = "search_wait"
    /\ treq' = tool_search_request
    /\ UNCHANGED <<tdata, tuuid, tstatus, tresult, terrors, tpolls>>
    /\ UNCHANGED svars

tool_failed_partial(status) ==
    /\ tstatus' = status
    /\ terrors' = terrors + 1
    /\ tresult' = Returned(summaries(tdata.books))
    /\ tpc' = "done"
    /\ UNCHANGED <<tdata, tuuid, treq, tpolls>>

\* lines 44-48 and 54-58: a status other than 200
tool_failed(status) ==
    /\ tstatus' = status
    /\ terrors' = terrors + 1
    /\ tresult' = Returned(<<>>)
    /\ tpc' = "done"
    /\ UNCHANGED <<tdata, tuuid, treq, tpolls>>

\* line 51 with the data just received, then line 52 or lines 61-77
tool_loop(uuid, d) ==
    IF TargetName \in d.remains
    THEN /\ tpolls < MaxPolls
         /\ tpolls' = tpolls + 1
         /\ treq' = tool_polling_request(uuid, d)
         /\ tpc' = "poll_wait"
         /\ UNCHANGED <<tresult, terrors>>
    ELSE /\ tresult' = Returned(summaries(d.books))
         /\ tpc' = "done"
         /\ UNCHANGED <<treq, terrors, tpolls>>

\* lines 43-48: the search is answered with another status than 200
tool_search_failed ==
    /\ tpc = "search_wait"
    /\ \E status \in Statuses \ {StatusOK} : tool_failed(status)
    /\ UNCHANGED svars

\* lines 49-51: the search is answered with status 200
tool_search_ok ==
    /\ tpc = "search_wait"
    /\ \E d \in Jsons :
        /\ tstatus' = StatusOK
        /\ tdata' = d
        /\ tuuid' = d.uuid
        /\ tool_loop(d.uuid, d)
    /\ UNCHANGED svars

\* lines 53-58: a poll is answered with another status than 200
tool_poll_failed ==
    /\ tpc = "poll_wait"
    /\ \E status \in Statuses \ {StatusOK} : tool_failed(status)
    /\ UNCHANGED svars

\* lines 53, 59 and 51: a poll is answered with status 200
tool_poll_ok ==
    /\ tpc = "poll_wait"
    /\ \E d \in Jsons :
        /\ tstatus' = StatusOK
        /\ tdata' = d
        /\ tuuid' = tuuid
        /\ tool_loop(tuuid, d)
    /\ UNCHANGED svars

ToolNext ==
    \/ tool_search
    \/ tool_search_failed
    \/ tool_search_ok
    \/ tool_poll_failed
    \/ tool_poll_ok

ToolSpec == Init /\ [][ToolNext]_vars

----------------------------------------------------------------------------
(* What a step did, read off the variables *)

ReqStates == {"search_req", "poll_req"}
SearchStates == {"search_task", "search_req", "search_retry"}
RetryStates == {"search_retry", "poll_retry"}

\* the step handed a request to _request
Sends == pc \notin ReqStates /\ pc' \in ReqStates

\* the step invoked self.callback
Delivers == calls' = calls + 1

\* the step took an answer of the server: a JSON body, a null body or a failure
Answered == answers' = answers + 1 \/ fails' = fails + 1

\* the step took a JSON body while the session was not cancelled
Accepted == Answered /\ resp'.kind = "json" /\ ~killed

\* the step took a failure of the transport or a bad status
Failed == Answered /\ resp'.kind = "error"

Ids(books) == [i \in 1..Len(books) |-> books[i]["id"].s]

----------------------------------------------------------------------------
(* Cancellation *)

\* C1: once kill() has been called no step invokes the callback, and a response
\* that arrives afterwards changes neither the snapshot nor what was delivered.
C1_NoCallbackAfterKill ==
    [][killed => (calls' = calls /\ cbArg' = cbArg /\ data' = data)]_vars

\* a full response arrived at a cancelled session and was dropped
C1_Witness ==
    /\ killed /\ calls = 0 /\ pc = "idle"
    /\ resp.kind = "json" /\ resp.diff = "absent"

\* C2: once kill() has been called no step sends a search or polling request:
\* the search or polling task that runs next returns and schedules nothing.
C2_NoRequestAfterKill ==
    [][killed =>
            /\ ~Sends /\ req' = req
            /\ (pc \in {"search_task", "poll_task"} /\ pc' # pc) =>
                    pc' = "idle" /\ delay' = 0]_vars

\* a poll was scheduled by a delivery, kill() came first, and the polling task
\* returned: the search is still the last request sent
C2_Witness ==
    /\ killed /\ pc = "idle" /\ calls = 1 /\ cbArg.running
    /\ req.cmd = "search" /\ resp.kind = "json"

----------------------------------------------------------------------------
(* Versions *)

\* C3 as stated: every delivered snapshot has a version at least that of the
\* snapshot delivered before it, whatever the server answers.
C3_VersionNeverDecreases ==
    [][(Delivers /\ calls > 0) => cbArg'.version >= cbArg.version]_vars

\* C3 amended: every delivered snapshot carries the version of the response it
\* was made from (so the delivered versions follow the server's).
C3_VersionIsResponseVersion ==
    [][Delivers => cbArg'.version = resp'.version]_vars

\* an incremental response was merged into an earlier snapshot and delivered
C3_Witness ==
    /\ calls = 2 /\ resp.kind = "json" /\ resp.diff = "diff"
    /\ cbArg.version = resp.version /\ ~resp.hasBooks

----------------------------------------------------------------------------
(* Termination *)

\* C4: once a snapshot with running = false has been delivered the session is
\* inert: no sleep pending, no task, no request, no further callback.
C4_CompletedIsInert ==
    [][(calls > 0 /\ ~cbArg.running) =>
            /\ pc = "idle" /\ pc' = "idle"
            /\ delay = 0 /\ delay' = 0
            /\ calls' = calls /\ req' = req /\ data' = data]_vars

\* a terminal snapshot was delivered after a poll, to a session never cancelled
C4_Witness ==
    /\ ~killed /\ calls = 2 /\ ~cbArg.running /\ pc = "idle" /\ req.cmd = "polling"

----------------------------------------------------------------------------
(* Deliveries *)

\* C5 as stated: the callback is invoked exactly once for every JSON response
\* taken while not cancelled, with the snapshot after the merge, and in no
\* other step.
C5_OncePerAcceptedResponse ==
    [][IF Accepted THEN Delivers /\ cbArg' = data' /\ cbArg'.set
       ELSE calls' = calls /\ cbArg' = cbArg]_vars

\* C5 amended: the callback is invoked exactly once for every JSON response taken
\* while not cancelled whose merge raises no exception, with the session's
\* snapshot after the merge, and in no other step: not for a failure, a null
\* body, a discarded response or a response whose merge raises.
C5_OncePerMergedResponse ==
    [][IF Accepted /\ ~merge(data, resp').raised
       THEN Delivers /\ cbArg' = data' /\ cbArg'.set
       ELSE calls' = calls /\ cbArg' = cbArg]_vars

\* an incremental response was delivered as the accumulated snapshot: the books
\* held before it, then the one it inserts
C5_Witness ==
    /\ calls = 2 /\ resp.kind = "json" /\ resp.diff = "diff" /\ ~resp.hasBooks
    /\ resp.insert = <<B2>> /\ cbArg = data /\ Ids(cbArg.books) = <<1, 2>>

----------------------------------------------------------------------------
(* Failures and retries *)

\* C6: a failed search or polling request invokes no callback and leaves the
\* snapshot as it was; the session sleeps RetryDelay and the request it sends
\* next, unless cancelled meanwhile, is the request that failed.
C6_FailureRetransmits ==
    [][/\ Failed =>
            /\ calls' = calls /\ cbArg' = cbArg /\ data' = data
            /\ pc' \in RetryStates /\ delay' = RetryDelay
       /\ (resp.kind = "error" /\ ~killed) => pc # "idle"
       /\ (resp.kind = "error" /\ pc \in RetryStates) => delay = RetryDelay
       /\ (resp.kind = "error" /\ Sends) => req' = req]_vars

\* a polling request failed and was sent again
C6_Witness ==
    /\ ~killed /\ resp.kind = "error" /\ pc = "poll_req"
    /\ req = polling_request(data) /\ calls = 1

\* C7: after any number of consecutive failures of the initial search a session
\* that is not cancelled is still retrying the same query, and a session stops
\* without a delivery only by cancellation.
C7_RetriesUnbounded ==
    /\ (fails > 0 /\ ~killed) =>
            /\ pc \in SearchStates
            /\ pc = "search_retry" => delay = RetryDelay
            /\ pc = "search_req" => req = search_request(query)
    /\ (pc = "idle" /\ calls = 0) => killed

\* the search has failed MaxFails times in a row and is in flight again
C7_Witness ==
    /\ ~killed /\ fails = MaxFails /\ pc = "search_req" /\ calls = 0
    /\ req = search_request(query)

----------------------------------------------------------------------------
(* The merge *)

\* the step merged an incremental response into a snapshot the session held
DiffMerged == Accepted /\ resp'.diff = "diff" /\ data.set

\* the books of the step's snapshot are those held before, at their places,
\* followed by the inserted ones in order
BooksGrowByAppend == Ids(data'.books) = Ids(data.books) \o Ids(resp'.insert)

\* C8 as stated: every merge of a response with a books_diff keeps the books held
\* before at their indices and appends the inserted records.
C8_BooksSurviveEveryDiff ==
    [][DiffMerged => BooksGrowByAppend]_vars

\* C8 amended: so does every merge of a response with a books_diff and no
\* top-level books; a top-level books beside the books_diff replaces the sequence.
C8_BooksSurviveDiffWithoutBooks ==
    [][/\ (DiffMerged /\ ~resp'.hasBooks) => BooksGrowByAppend
       /\ (DiffMerged /\ resp'.hasBooks) => Len(data'.books) = Len(resp'.books)]_vars

\* a book was inserted behind the one held, and the one held was patched in place
C8_Witness ==
    /\ calls = 2 /\ resp.kind = "json" /\ resp.diff = "diff" /\ ~resp.hasBooks
    /\ resp.insert = <<B2>> /\ resp.update = <<P_ex>>
    /\ Ids(data.books) = <<1, 2>> /\ data.books[1] # B1

\* the places (record, item) of update u whose item patches key k of the book
\* at position p of a sequence of n books
Touches(u, n, p, k) ==
    { ij \in (1..Len(u)) \X (1..2) :
        /\ ij[2] <= Len(u[ij[1]].fields)
        /\ u[ij[1]].fields[ij[2]].k = k
        /\ p = IF u[ij[1]].idx >= 0 THEN u[ij[1]].idx + 1 ELSE n + u[ij[1]].idx + 1 }

\* field new is field old patched with value v
Patched(old, v, new) ==
    IF v.t = "l" THEN old.t = "l" /\ new.t = "l" /\ new.l = old.l \o v.l
    ELSE IF v.t = "m" THEN
        /\ old.t = "m" /\ new.t = "m"
        /\ \A mk \in MapKeys : new.m[mk] = IF v.m[mk] # 0 THEN v.m[mk] ELSE old.m[mk]
    ELSE new = v

Replaced ==
    /\ Delivers
    /\ data' = Snapshot(resp'.uuid, resp'.version, resp'.running, resp'.books)

\* the response was merged incrementally: into nothing (no snapshot held, or a
\* books_diff without insert) that is an exception; else the snapshot takes the
\* response's top-level fields and, without a top-level books, keeps its books
Incremental ==
    IF ~data.set \/ resp'.diff = "empty" THEN ~Delivers /\ data' = data
    ELSE /\ data'.uuid = resp'.uuid /\ data'.version = resp'.version
         /\ data'.running = resp'.running
         /\ ~resp'.hasBooks => BooksGrowByAppend

\* C10 as stated: the merge is incremental exactly when books_diff is present and
\* not null, and a wholesale replacement otherwise.
C10_DiffWhenPresentNonNull ==
    [][Accepted => IF resp'.diff \in {"absent", "null"} THEN Replaced
                   ELSE Incremental]_vars

\* C10 amended: the merge is incremental exactly when books_diff is present and
\* truthy (not null and not an empty mapping), and a wholesale replacement
\* otherwise.
C10_DiffWhenTruthy ==
    [][Accepted => IF resp'.diff # "diff" THEN Replaced ELSE Incremental]_vars

\* a response with an empty books_diff replaced the snapshot of an earlier one
C10_Witness ==
    /\ calls = 2 /\ resp.kind = "json" /\ resp.diff = "empty" /\ cbArg = data
    /\ data = Snapshot(resp.uuid, resp.version, resp.running, resp.books)
    /\ req.cmd = "polling" /\ req.version # resp.version

----------------------------------------------------------------------------
(* The polling schedule *)

\* C11: a step that delivers a snapshot with running = true leaves the session
\* in one sleep before its next poll, of 20 ms when the version is 1 and the
\* accumulated books are empty and of 500 ms in every other case; when that sleep
\* is over the step after it starts the one polling task.
C11_NextPollDelay ==
    [][/\ (Delivers /\ cbArg'.running) =>
            /\ pc' = "poll_sleep"
            /\ delay' = IF cbArg'.version = 1 /\ Len(cbArg'.books) = 0
                        THEN WarmupDelay ELSE PollDelay
       /\ (pc = "poll_sleep" /\ pc' # pc) => pc' = "poll_task" /\ delay' = 0
       /\ pc' = "poll_sleep" => pc = "poll_sleep" \/ (Delivers /\ cbArg'.running)
      ]_vars

\* an incremental response of version 1 that leaves the books empty was delivered
\* as the second snapshot: the session waits 20 ms
C11_Witness ==
    /\ pc = "poll_sleep" /\ delay = WarmupDelay /\ calls = 2
    /\ resp.diff = "diff" /\ cbArg.running /\ cbArg.version = 1 /\ cbArg.books = <<>>

\* the step took a null body as the answer of a polling request
Emptied == Answered /\ resp'.kind = "null" /\ req.cmd = "polling"

\* C12: a null body answering a polling request is neither merged nor delivered:
\* the snapshot and the callback count stay as they were, the session sleeps
\* RetryDelay, and the request it sends next, unless cancelled meanwhile, is a
\* polling request with the uuid and version of the one answered by null.
C12_EmptyPollRepeats ==
    [][/\ Emptied =>
            /\ calls' = calls /\ cbArg' = cbArg /\ data' = data
            /\ pc' = "poll_retry" /\ delay' = RetryDelay
       /\ (resp.kind = "null" /\ req.cmd = "polling" /\ ~killed) => pc # "idle"
       /\ (resp.kind = "null" /\ req.cmd = "polling" /\ Sends) =>
            /\ req'.cmd = "polling"
            /\ req'.uuid = req.uuid /\ req'.version = req.version
            /\ req' = polling_request(data)
      ]_vars

\* a polling request was answered by null and sent again
C12_Witness ==
    /\ pc = "poll_req" /\ resp.kind = "null" /\ req.cmd = "polling"
    /\ answers = 2 /\ calls = 1 /\ cbArg = data
    /\ req.uuid = data.uuid /\ req.version = data.version

\* the step handed a polling request to _request
Polls == Sends /\ pc' = "poll_req"

\* C13 as stated: every polling request carries diff 1, timeout 10 and the uuid
\* and version of the snapshot held when it is sent, which are those of the
\* response most recently merged and delivered to the callback.
C13_PollCarriesDelivered ==
    [][Polls =>
            /\ req'.cmd = "polling"
            /\ req'.diff = PollDiff /\ req'.timeout = PollTimeout
            /\ req'.uuid = data.uuid /\ req'.version = data.version
            /\ req'.uuid = cbArg.uuid /\ req'.version = cbArg.version]_vars

\* C13 amended: every polling request carries diff 1, timeout 10 and the uuid and
\* version of the snapshot held when it is sent, which are those of the response
\* most recently merged into the snapshot, delivered or not: the snapshot changes
\* only by taking a response, and then takes that response's uuid and version.
C13_PollCarriesSnapshot ==
    [][/\ Polls =>
            /\ req'.cmd = "polling"
            /\ req'.diff = PollDiff /\ req'.timeout = PollTimeout
            /\ req'.uuid = data.uuid /\ req'.version = data.version
       /\ data' # data =>
            /\ Accepted
            /\ data'.uuid = resp'.uuid /\ data'.version = resp'.version
      ]_vars

\* a poll was sent again after a merge that raised: it carries the version of the
\* response that was never delivered
C13_Witness ==
    /\ pc = "poll_req" /\ calls = 1 /\ resp.kind = "json"
    /\ req.version = resp.version /\ req.version # cbArg.version
    /\ req = polling_request(data)

----------------------------------------------------------------------------
(* The search request *)

\* the value of a field has content: the key is there, not None and not ''
HasContent(v) == v \notin {Absent, None, ""}

\* C14 as stated: the parameters of the search request are exactly the
\* recognized fields of the query whose value is present and non-empty, with their
\* values unchanged, and no parameter without content gets into the query string.
C14_StripKeepsNonEmpty ==
    req.cmd = "search" =>
        /\ \A k \in FieldSet :
            req.query[k] = IF HasContent(query[k]) THEN query[k] ELSE Absent
        /\ \A i \in DOMAIN object_to_query_string(req.query) :
            HasContent(object_to_query_string(req.query)[i].value)

----------------------------------------------------------------------------
(* Exceptions in the merge *)

\* the step took a JSON body, uncancelled, and an exception left receive
MergeRaised == Accepted /\ ~Delivers

\* C15 as stated: an exception raised inside the merge ends the continuation
\* that ran it; it is not turned into a retry of the search or polling request
\* after RetryDelay.
C15_MergeErrorCrashes ==
    [][MergeRaised => pc' = "idle" /\ delay' = 0]_vars

\* C15 amended: an exception raised inside the merge is caught where a failure
\* of the request is caught: no callback is invoked, the session sleeps
\* RetryDelay and then starts the search again (the same request) or the next
\* poll (built from the snapshot as the merge left it).
C15_MergeErrorRetries ==
    [][/\ MergeRaised =>
            /\ calls' = calls /\ cbArg' = cbArg
            /\ pc' = (IF pc = "search_req" THEN "search_retry" ELSE "poll_retry")
            /\ delay' = RetryDelay
       /\ (resp.kind = "json" /\ pc \in RetryStates /\ pc' # pc) =>
            pc' = (IF pc = "search_retry" THEN "search_task" ELSE "poll_task")
       /\ (resp.kind = "json" /\ pc = "search_task" /\ Sends) => req' = req
       /\ (resp.kind = "json" /\ pc = "poll_task" /\ Sends) =>
            req' = polling_request(data)
      ]_vars

\* an update addressed a book the snapshot does not have: the poll was sent again
C15_Witness ==
    /\ pc = "poll_req" /\ resp.kind = "json" /\ resp.diff = "diff" /\ calls = 1
    /\ answers = 2 /\ resp.update = <<P_second>> /\ Len(data.books) < 2

----------------------------------------------------------------------------
(* Continuations *)

SleepStates == {"search_retry", "poll_retry", "poll_sleep"}

\* C16: a session has at most one coroutine or task that has not ended: every
\* run of a coroutine either goes on (awaiting its request or its sleep), ends
\* without a successor, or ends having created exactly one task.  That one is
\* waiting for a request, in a sleep, or about to run; the merge runs inside one
\* step of it, so two merges never overlap.
C16_OneContinuation ==
    /\ live \in {0, 1}
    /\ live = 0 <=> pc = "idle"
    /\ delay # 0 <=> pc \in SleepStates

\* after a search that failed, a delivery, a poll and a poll that failed, the
\* session has its one request in flight
C16_Witness ==
    /\ live = 1 /\ pc = "poll_req" /\ calls = 1 /\ fails = 0 /\ answers = 2
    /\ resp.kind = "error" /\ ~killed

\* C17 as stated: when the merge of a response raises, no callback is invoked for
\* it and the snapshot is as it was before the response arrived.
C17_FailedMergeRestores ==
    [][MergeRaised => calls' = calls /\ cbArg' = cbArg /\ data' = data]_vars

\* C17 amended: when the merge of a response raises, no callback is invoked for
\* it, and the snapshot keeps what the merge had done before the exception: the
\* inserted books, the response's uuid, version and running, and the patch items
\* before the failing one; so the next poll carries the response's version.  Only
\* a diff merged into no snapshot at all leaves the session's data as it was.
C17_FailedMergeKeepsPartial ==
    [][/\ MergeRaised =>
            /\ calls' = calls /\ cbArg' = cbArg
            /\ IF ~data.set THEN data' = data
               ELSE LET base == IF resp'.hasBooks THEN resp'.books
                                ELSE data.books \o resp'.insert
                    IN  /\ data'.uuid = resp'.uuid /\ data'.version = resp'.version
                        /\ data'.running = resp'.running
                        /\ Ids(data'.books) = Ids(base)
                        /\ (resp'.update = <<P_bad>> /\ Len(base) > 0) =>
                                data'.books[1]["a"] = Scalar(7)
       /\ (resp.kind = "json" /\ pc = "poll_task" /\ Sends) =>
            req'.version = resp.version
      ]_vars

\* {_idx: 0, a: 7, list: {x: 1}} raised at its second item: the first item, the
\* insert and the new version stay in the snapshot, which was not delivered
C17_Witness ==
    /\ pc = "poll_retry" /\ calls = 1 /\ resp.kind = "json"
    /\ resp.update = <<P_bad>> /\ resp.insert = <<B2>> /\ ~resp.hasBooks
    /\ Len(data.books) = Len(cbArg.books) + 1
    /\ data.books[1]["a"] = Scalar(7)
    /\ data.version = resp.version /\ data.version # cbArg.version

----------------------------------------------------------------------------
(* Progress *)

\* the session has delivered a snapshot with running = false and has stopped
Finished ==
    /\ pc = "idle" /\ live = 0
    /\ calls > 0 /\ cbArg.set /\ ~cbArg.running /\ cbArg = data
    /\ resp.kind = "json" /\ ~resp.running

\* C18: a session that is never cancelled, whose requests are all answered,
\* with finitely many failures, null bodies and responses that do not merge, and
\* in the end with a response with running = false that merges, delivers that
\* final snapshot to the callback and stops.
C18_EventuallyFinished == <>Finished

\* the final snapshot was delivered after a poll that failed and was sent again
C18_Witness ==
    /\ Finished /\ req.cmd = "polling" /\ answers = MaxAnswers /\ calls = 2

----------------------------------------------------------------------------
(* nlib_search_books *)

ToolWaits == {"search_wait", "poll_wait"}

\* the step took a response with status 200
ToolAnswered == tpc \in ToolWaits /\ tstatus' = StatusOK

\* the step took a response with another status
ToolFailed == tpc \in ToolWaits /\ tstatus' # StatusOK

\* the step sent a polling request
ToolPolls == tpolls' = tpolls + 1

C20_FailureReturnsEmpty ==
    [][/\ ToolFailed =>
            /\ terrors' = terrors + 1
            /\ tresult' = Returned(<<>>)
            /\ tpc' = "done"
            /\ treq' = treq /\ tpolls' = tpolls /\ tdata' = tdata
       /\ tpc = "done" => UNCHANGED tvars
       /\ terrors' # terrors => ToolFailed
      ]_vars

\* a poll failed after a response that had a book held by the target library:
\* the result is empty
C20_Witness ==
    /\ tpc = "done" /\ tstatus # StatusOK /\ tpolls = 2 /\ terrors = 1
    /\ summaries(tdata.books) # <<>> /\ tresult = Returned(<<>>)

====
